---- MODULE Spec2Model ----
(***************************************************************************)
(* Model of the typed expression builder of tir/op/op.cc: the type         *)
(* promotion rule (BinaryOpMatchTypes), cast, the numeric limit functions, *)
(* binary min/max, the shifts, the arithmetic, comparison, division and    *)
(* bitwise operators, pow, fmod and the min/max reduction builders.        *)
(*                                                                         *)
(* Every builder call is one action: it draws its arguments from bounded   *)
(* sets, runs the whole function and records the arguments and the outcome *)
(* (returned expression, or fatal failure) in the state.                   *)
(*                                                                         *)
(* A 64-bit machine word is the set of its set bit positions (0..63), so   *)
(* int64_t / uint64_t arithmetic keeps its width exactly.                  *)
(* A double payload is an integer count of halves (3 stands for 1.5).      *)
(***************************************************************************)
EXTENDS Integers, Sequences, FiniteSets, TLC

VARIABLES registry,   \* Custom-Type Registry: code -> [registered, minf]
          call,       \* name of the finished builder call, or "idle"
          arg_a,      \* first operand expression passed in
          arg_b,      \* second operand expression passed in
          arg_t,      \* data type passed in
          failed,     \* the call ended in ICHECK / LOG(FATAL)
          out,        \* expression returned
          out_a,      \* operand a after BinaryOpMatchTypes
          out_b,      \* operand b after BinaryOpMatchTypes
          overflow,   \* a signed 64-bit intermediate overflowed
          threads     \* concurrent builder calls: thread -> [pc, call, result]

vars == <<registry, call, arg_a, arg_b, arg_t, failed, out, out_a, out_b, overflow,
          threads>>

-----------------------------------------------------------------------------
(* Bounds of the model *)

NumCustom == 1     \* custom type codes 1..NumCustom
MaxLanes == 3      \* lane counts 1..MaxLanes
MaxBits == 66      \* bit widths 1..MaxBits given to the limit functions
NumThreads == 2    \* threads that build expressions concurrently

(* width of the int64_t / uint64_t payload *)
WordBits == 64

-----------------------------------------------------------------------------
(* 64-bit words *)

AllBits == 0 .. (WordBits - 1)
SignBit == WordBits - 1

SetMin(S) == CHOOSE x \in S : \A y \in S : x <= y
SetMax(S) == CHOOSE x \in S : \A y \in S : x >= y

RECURSIVE SumBits(_)
SumBits(S) == IF S = {} THEN 0
              ELSE LET i == SetMin(S) IN 2^i + SumBits(S \ {i})

\* the word holding the small integer n (two's complement)
FromInt(n) ==
  IF n >= 0 THEN {i \in 0..30 : (n \div (2^i)) % 2 = 1}
  ELSE AllBits \ {i \in 0..30 : ((-n - 1) \div (2^i)) % 2 = 1}

\* signed value of a word (small magnitudes only)
ToInt(w) == IF SignBit \in w THEN -SumBits(AllBits \ w) - 1 ELSE SumBits(w)

\* w << k on a 64-bit register
WordShl(w, k) == {i + k : i \in w} \cap AllBits
\* arithmetic w >> k on int64_t
WordSar(w, k) == {i - k : i \in {j \in w : j >= k}}
                   \cup (IF SignBit \in w THEN (WordBits - k) .. SignBit ELSE {})
\* logical w >> k on uint64_t
WordShr(w, k) == {i - k : i \in {j \in w : j >= k}}
\* w - 1
WordDec(w) == IF w = {} THEN AllBits
              ELSE LET l == SetMin(w) IN (w \ {l}) \cup (0 .. (l - 1))
\* w + 1
WordInc(w) == LET clear == AllBits \ w IN
              IF clear = {} THEN {}
              ELSE LET c == SetMin(clear) IN (w \ (0 .. (c - 1))) \cup {c}
\* -w
WordNeg(w) == WordInc(AllBits \ w)
\* a < b as int64_t
WordLess(x, y) ==
  IF (SignBit \in x) # (SignBit \in y) THEN SignBit \in x
  ELSE x # y /\ LET d == (x \ y) \cup (y \ x) IN SetMax(d) \in y

Int64Max == AllBits \ {SignBit}
Int64Lowest == {SignBit}
UInt64Max == AllBits

\* static_cast<double>(int64_t), in halves
IntToDouble(w) == 2 * ToInt(w)
\* static_cast<int64_t>(double): truncation toward zero
DoubleToInt(f) == FromInt(IF f >= 0 THEN f \div 2 ELSE -((-f) \div 2))

-----------------------------------------------------------------------------
(* Numeric-Type Descriptor *)

DataType(kind, code, bits, lanes) ==
  [kind |-> kind, code |-> code, bits |-> bits, lanes |-> lanes]

DataTypeInt(bits, lanes) == DataType("int", 0, bits, lanes)
DataTypeUInt(bits, lanes) == DataType("uint", 0, bits, lanes)
DataTypeFloat(bits, lanes) == DataType("float", 0, bits, lanes)
DataTypeBool(lanes) == DataType("bool", 0, 1, lanes)
DataTypeHandle == DataType("handle", 0, 64, 1)
DataTypeCustom(code, bits, lanes) == DataType("custom", code, bits, lanes)
DataTypeVoid == DataType("void", 0, 0, 0)

is_int(t) == t.kind = "int"
is_uint(t) == t.kind = "uint"
is_float(t) == t.kind = "float"
is_bool(t) == t.kind = "bool"
is_handle(t) == t.kind = "handle"
is_custom(t) == t.kind = "custom"
element_of(t) == [t EXCEPT !.lanes = 1]
with_lanes(t, n) == [t EXCEPT !.lanes = n]

-----------------------------------------------------------------------------
(* Custom-Type Registry *)

CustomCodes == 1 .. NumCustom

GetTypeRegistered(code) == code \in CustomCodes /\ registry[code].registered
\* GetMinFunc: TRUE when a minimum callback is registered for the code
GetMinFunc(code) == code \in CustomCodes /\ registry[code].minf

-----------------------------------------------------------------------------
(* Expressions *)

Expr(node, dtype, name, ival, fval, args) ==
  [node |-> node, dtype |-> dtype, name |-> name,
   ival |-> ival, fval |-> fval, args |-> args]

\* PrimExpr(): the undefined expression
Undefined == Expr("undefined", DataTypeVoid, "", {}, 0, <<>>)

IntImm(t, w) == Expr("IntImm", t, "", w, 0, <<>>)
FloatImm(t, f) == Expr("FloatImm", t, "", {}, f, <<>>)
Var(name, t) == Expr("Var", t, name, {}, 0, <<>>)
tir_Cast(t, value) == Expr("Cast", t, "", {}, 0, <<value>>)
tir_Broadcast(value, lanes) ==
  Expr("Broadcast", with_lanes(value.dtype, lanes), "", {}, 0, <<value>>)
tir_Call(t, name, args) == Expr("Call", t, name, {}, 0, args)
tir_Min(x, y) == Expr("Min", x.dtype, "", {}, 0, <<x, y>>)
tir_Max(x, y) == Expr("Max", x.dtype, "", {}, 0, <<x, y>>)

\* the symbolic infinity sentinels, recognized by identity
pos_inf == Expr("Var", DataTypeFloat(32, 1), "pos_inf", {}, 0, <<>>)
neg_inf == Expr("Var", DataTypeFloat(32, 1), "neg_inf", {}, 0, <<>>)
is_pos_inf(value) == value = pos_inf
is_neg_inf(value) == value = neg_inf

\* outcome of a call that may fail fatally
Ok(e) == [fatal |-> FALSE, expr |-> e]
Fatal == [fatal |-> TRUE, expr |-> Undefined]

\* LargeUIntImm(t, low, high)
LargeUIntImm(t, low, high) ==
  tir_Call(t, "tir.large_uint_imm",
       <<IntImm(DataTypeUInt(32, 1), low), IntImm(DataTypeUInt(32, 1), high)>>)

LowHalf(w) == w \cap (0 .. 31)
HighHalf(w) == WordShr(w, 32)

\* MakeConstScalar for a uint64_t-representable payload
MakeUIntScalar(t, w) ==
  IF SignBit \notin w THEN IntImm(t, w)
  ELSE LargeUIntImm(t, LowHalf(w), HighHalf(w))

\* make_const(t, value) for an int64_t / uint64_t value, scalar t
MakeConstScalarInt(t, w) ==
  IF is_int(t) THEN Ok(IntImm(t, w))
  ELSE IF is_uint(t) \/ is_bool(t) THEN Ok(MakeUIntScalar(t, w))
  ELSE IF is_float(t) \/ is_custom(t) THEN Ok(FloatImm(t, IntToDouble(w)))
  ELSE Fatal

\* make_const(t, value) for a double value, scalar t
MakeConstScalarDouble(t, f) ==
  IF is_int(t) THEN Ok(IntImm(t, DoubleToInt(f)))
  ELSE IF is_uint(t) \/ is_bool(t) THEN Ok(MakeUIntScalar(t, DoubleToInt(f)))
  ELSE IF is_float(t) \/ is_custom(t) THEN Ok(FloatImm(t, f))
  ELSE Fatal

-----------------------------------------------------------------------------
(* SimpleCast and cast *)

SimpleCast(t, value) == IF value.dtype = t THEN value ELSE tir_Cast(t, value)

\* cast with the broadcast of a converted scalar left out
cast_NoBroadcast(t, value) ==
  IF value.dtype = t THEN Ok(value)
  ELSE IF t.lanes = 1 THEN
    IF value.node = "IntImm" THEN MakeConstScalarInt(t, value.ival)
    ELSE IF value.node = "FloatImm" THEN MakeConstScalarDouble(t, value.fval)
    ELSE Ok(tir_Cast(t, value))
  ELSE IF value.dtype.lanes = 1 THEN
    IF value.dtype = element_of(t) THEN Ok(value)
    ELSE IF value.node = "IntImm" THEN MakeConstScalarInt(element_of(t), value.ival)
    ELSE IF value.node = "FloatImm"
      THEN MakeConstScalarDouble(element_of(t), value.fval)
    ELSE Ok(tir_Cast(element_of(t), value))
  ELSE IF value.dtype.lanes # t.lanes THEN Fatal
  ELSE Ok(tir_Cast(t, value))

\* the scalar cast of cast: literals fold through make_const
CastScalar(t, value) ==
  IF value.node = "IntImm" THEN MakeConstScalarInt(t, value.ival)
  ELSE IF value.node = "FloatImm" THEN MakeConstScalarDouble(t, value.fval)
  ELSE Ok(tir_Cast(t, value))

\* tir::Broadcast(value, lanes) of a converted scalar
BroadcastTo(v, lanes) == IF v.fatal THEN Fatal ELSE Ok(tir_Broadcast(v.expr, lanes))

cast(t, value) ==
  IF value.dtype = t THEN Ok(value)
  ELSE IF t.lanes = 1 THEN CastScalar(t, value)
  ELSE IF value.dtype.lanes = 1 THEN
    BroadcastTo(IF value.dtype # element_of(t) THEN CastScalar(element_of(t), value)
                ELSE Ok(value),
                t.lanes)
  ELSE IF value.dtype.lanes # t.lanes THEN Fatal
  ELSE Ok(tir_Cast(t, value))

-----------------------------------------------------------------------------
(* BinaryOpMatchTypes *)

Matched(lhs, rhs) == [fatal |-> FALSE, lhs |-> lhs, rhs |-> rhs]
MatchFatal == [fatal |-> TRUE, lhs |-> Undefined, rhs |-> Undefined]

\* MatchLanes with the broadcast of a scalar right-hand side left out
MatchLanes_NoRhsBroadcast(lhs, rhs) ==
  LET ltype == lhs.dtype
      rtype == rhs.dtype
  IN IF ltype.lanes = 1 /\ rtype.lanes # 1
       THEN Matched(tir_Broadcast(lhs, rtype.lanes), rhs)
     ELSE IF rtype.lanes = 1 /\ ltype.lanes # 1 THEN Matched(lhs, rhs)
     ELSE IF ltype.lanes = rtype.lanes THEN Matched(lhs, rhs)
     ELSE MatchFatal

\* lane reconciliation: broadcast the scalar side, or fail on a mismatch
MatchLanes(lhs, rhs) ==
  LET ltype == lhs.dtype
      rtype == rhs.dtype
  IN IF ltype.lanes = 1 /\ rtype.lanes # 1
       THEN Matched(tir_Broadcast(lhs, rtype.lanes), rhs)
     ELSE IF rtype.lanes = 1 /\ ltype.lanes # 1
       THEN Matched(lhs, tir_Broadcast(rhs, ltype.lanes))
     ELSE IF ltype.lanes = rtype.lanes THEN Matched(lhs, rhs)
     ELSE MatchFatal

\* MixedSignType resolving to the unsigned type
MixedSignType_Unsigned(t, other) ==
  DataTypeUInt(IF t.bits >= other.bits THEN t.bits ELSE other.bits, t.lanes)

\* the signed type both sides of a mixed int / uint pair are cast to
MixedSignType(t, other) ==
  DataTypeInt(IF t.bits >= other.bits THEN t.bits ELSE other.bits, t.lanes)

\* lhs = cast(rhs.dtype(), lhs)
AssignLhs(c, rhs) == IF c.fatal THEN MatchFatal ELSE Matched(c.expr, rhs)
\* rhs = cast(lhs.dtype(), rhs)
AssignRhs(lhs, c) == IF c.fatal THEN MatchFatal ELSE Matched(lhs, c.expr)

\* numeric-kind reconciliation that widens within any one kind, floats too
MatchKinds_WidensFloat(lhs, rhs) ==
  IF ~is_float(lhs.dtype)
     /\ (is_float(rhs.dtype) \/ GetTypeRegistered(rhs.dtype.code))
  THEN AssignLhs(cast(rhs.dtype, lhs), rhs)
  ELSE IF (is_float(lhs.dtype) \/ GetTypeRegistered(lhs.dtype.code))
          /\ ~is_float(rhs.dtype)
  THEN AssignRhs(lhs, cast(lhs.dtype, rhs))
  ELSE IF lhs.dtype.kind = rhs.dtype.kind
  THEN IF lhs.dtype.bits < rhs.dtype.bits
       THEN AssignLhs(cast(rhs.dtype, lhs), rhs)
       ELSE AssignRhs(lhs, cast(lhs.dtype, rhs))
  ELSE IF (is_int(lhs.dtype) /\ is_uint(rhs.dtype))
          \/ (is_uint(lhs.dtype) /\ is_int(rhs.dtype))
  THEN Matched(SimpleCast(MixedSignType(lhs.dtype, rhs.dtype), lhs),
               SimpleCast(MixedSignType(rhs.dtype, lhs.dtype), rhs))
  ELSE MatchFatal

\* numeric-kind reconciliation, once the lanes agree
MatchKinds(lhs, rhs) ==
  IF ~is_float(lhs.dtype)
     /\ (is_float(rhs.dtype) \/ GetTypeRegistered(rhs.dtype.code))
  THEN AssignLhs(cast(rhs.dtype, lhs), rhs)
  ELSE IF (is_float(lhs.dtype) \/ GetTypeRegistered(lhs.dtype.code))
          /\ ~is_float(rhs.dtype)
  THEN AssignRhs(lhs, cast(lhs.dtype, rhs))
  ELSE IF (is_int(lhs.dtype) /\ is_int(rhs.dtype))
          \/ (is_uint(lhs.dtype) /\ is_uint(rhs.dtype))
  THEN IF lhs.dtype.bits < rhs.dtype.bits
       THEN AssignLhs(cast(rhs.dtype, lhs), rhs)
       ELSE AssignRhs(lhs, cast(lhs.dtype, rhs))
  ELSE IF (is_int(lhs.dtype) /\ is_uint(rhs.dtype))
          \/ (is_uint(lhs.dtype) /\ is_int(rhs.dtype))
  THEN Matched(SimpleCast(MixedSignType(lhs.dtype, rhs.dtype), lhs),
               SimpleCast(MixedSignType(rhs.dtype, lhs.dtype), rhs))
  ELSE MatchFatal

\* the rule from the second equality test on, given the lane-matched operands
MatchAfterLanes(l) ==
  IF l.fatal THEN MatchFatal
  ELSE IF l.lhs.dtype = l.rhs.dtype THEN l
  ELSE MatchKinds(l.lhs, l.rhs)

BinaryOpMatchTypes(lhs, rhs) ==
  IF lhs.dtype = rhs.dtype THEN Matched(lhs, rhs)
  ELSE MatchAfterLanes(MatchLanes(lhs, rhs))

-----------------------------------------------------------------------------
(* Numeric-limit functions *)

\* order-preserving stand-ins for the IEEE payloads
HalfMax == 131008             \* 65504.0 in halves
FloatMax == 2147483000        \* std::numeric_limits<float>::max()
DoubleMax == 2147483600       \* std::numeric_limits<double>::max()
Infinity == 2147483647        \* std::numeric_limits<double>::infinity()

LimitOk(e, ovf) == [fatal |-> FALSE, expr |-> e, ovf |-> ovf]
LimitFatal == [fatal |-> TRUE, expr |-> Undefined, ovf |-> FALSE]

\* int64_t w << k leaves the representable range
ShlOverflows(w, k) ==
  k < 0 \/ k >= WordBits \/ SignBit \in w \/ WordSar(WordShl(w, k), k) # w

\* max_value shifting a signed 1 by bits instead of bits - 1
max_value_ShiftByBits(dtype) ==
  IF dtype.lanes # 1 THEN LimitFatal
  ELSE IF is_int(dtype) THEN
    IF dtype.bits = 64 THEN LimitOk(IntImm(dtype, Int64Max), FALSE)
    ELSE IF dtype.bits < 64 THEN
      LET val == {0}
          sh == WordShl(val, dtype.bits)
      IN LimitOk(IntImm(dtype, WordDec(sh)),
                 ShlOverflows(val, dtype.bits) \/ sh = Int64Lowest)
    ELSE LimitFatal
  ELSE IF is_uint(dtype) THEN
    IF dtype.bits = 64 THEN LimitOk(MakeUIntScalar(dtype, UInt64Max), FALSE)
    ELSE IF dtype.bits < 64 THEN
      LimitOk(IntImm(dtype, WordDec(WordShl({0}, dtype.bits))), FALSE)
    ELSE LimitFatal
  ELSE IF is_float(dtype) THEN
    IF dtype.bits = 64 THEN LimitOk(FloatImm(dtype, DoubleMax), FALSE)
    ELSE IF dtype.bits = 32 THEN LimitOk(FloatImm(dtype, FloatMax), FALSE)
    ELSE IF dtype.bits = 16 THEN LimitOk(FloatImm(dtype, HalfMax), FALSE)
    ELSE LimitFatal
  ELSE LimitFatal

max_value(dtype) ==
  IF dtype.lanes # 1 THEN LimitFatal
  ELSE IF is_int(dtype) THEN
    IF dtype.bits = 64 THEN LimitOk(IntImm(dtype, Int64Max), FALSE)
    ELSE IF dtype.bits < 64 THEN
      LET val == {0}
          sh == WordShl(val, dtype.bits - 1)
      IN LimitOk(IntImm(dtype, WordDec(sh)),
                 ShlOverflows(val, dtype.bits - 1) \/ sh = Int64Lowest)
    ELSE LimitFatal
  ELSE IF is_uint(dtype) THEN
    IF dtype.bits = 64 THEN LimitOk(MakeUIntScalar(dtype, UInt64Max), FALSE)
    ELSE IF dtype.bits < 64 THEN
      LimitOk(IntImm(dtype, WordDec(WordShl({0}, dtype.bits))), FALSE)
    ELSE LimitFatal
  ELSE IF is_float(dtype) THEN
    IF dtype.bits = 64 THEN LimitOk(FloatImm(dtype, DoubleMax), FALSE)
    ELSE IF dtype.bits = 32 THEN LimitOk(FloatImm(dtype, FloatMax), FALSE)
    ELSE IF dtype.bits = 16 THEN LimitOk(FloatImm(dtype, HalfMax), FALSE)
    ELSE LimitFatal
  ELSE LimitFatal

\* (*f)(bits): what the extension's minimum callback for the code returns
MinFuncResult(code, bits) ==
  FloatImm(DataTypeCustom(code, bits, 1), -(2 * code * bits))

\* min_value that never consults the registry
min_value_NoRegistry(dtype) ==
  IF dtype.lanes # 1 THEN LimitFatal
  ELSE IF is_int(dtype) THEN
    IF dtype.bits = 64 THEN LimitOk(IntImm(dtype, Int64Lowest), FALSE)
    ELSE IF dtype.bits < 64 THEN
      LET val == {0}
          sh == WordShl(val, dtype.bits - 1)
      IN LimitOk(IntImm(dtype, WordNeg(sh)),
                 ShlOverflows(val, dtype.bits - 1) \/ sh = Int64Lowest)
    ELSE LimitFatal
  ELSE IF is_uint(dtype) THEN LimitOk(IntImm(dtype, {}), FALSE)
  ELSE IF is_float(dtype) THEN
    IF dtype.bits = 64 THEN LimitOk(FloatImm(dtype, -DoubleMax), FALSE)
    ELSE IF dtype.bits = 32 THEN LimitOk(FloatImm(dtype, -FloatMax), FALSE)
    ELSE IF dtype.bits = 16 THEN LimitOk(FloatImm(dtype, -HalfMax), FALSE)
    ELSE LimitFatal
  ELSE LimitFatal

min_value(dtype) ==
  IF dtype.lanes # 1 THEN LimitFatal
  ELSE IF GetTypeRegistered(dtype.code) THEN
    IF ~GetMinFunc(dtype.code) THEN LimitFatal
    ELSE LimitOk(MinFuncResult(dtype.code, dtype.bits), FALSE)
  ELSE IF is_int(dtype) THEN
    IF dtype.bits = 64 THEN LimitOk(IntImm(dtype, Int64Lowest), FALSE)
    ELSE IF dtype.bits < 64 THEN
      LET val == {0}
          sh == WordShl(val, dtype.bits - 1)
      IN LimitOk(IntImm(dtype, WordNeg(sh)),
                 ShlOverflows(val, dtype.bits - 1) \/ sh = Int64Lowest)
    ELSE LimitFatal
  ELSE IF is_uint(dtype) THEN LimitOk(IntImm(dtype, {}), FALSE)
  ELSE IF is_float(dtype) THEN
    IF dtype.bits = 64 THEN LimitOk(FloatImm(dtype, -DoubleMax), FALSE)
    ELSE IF dtype.bits = 32 THEN LimitOk(FloatImm(dtype, -FloatMax), FALSE)
    ELSE IF dtype.bits = 16 THEN LimitOk(FloatImm(dtype, -HalfMax), FALSE)
    ELSE LimitFatal
  ELSE LimitFatal

infinity(dtype) ==
  IF dtype.lanes # 1 THEN LimitFatal
  ELSE IF is_float(dtype) THEN
    IF dtype.bits = 64 THEN LimitOk(FloatImm(dtype, Infinity), FALSE)
    ELSE IF dtype.bits = 32 \/ dtype.bits = 16
      THEN LimitOk(FloatImm(dtype, Infinity), FALSE)
    ELSE LimitFatal
  ELSE LimitFatal

-----------------------------------------------------------------------------
(* Binary min / max *)

\* TryConstFold<tir::Min>: two literals of the (matched) type fold
TryConstFoldMin(x, y) ==
  IF x.node = "IntImm" /\ y.node = "IntImm"
    THEN IntImm(x.dtype, IF WordLess(y.ival, x.ival) THEN y.ival ELSE x.ival)
  ELSE IF x.node = "FloatImm" /\ y.node = "FloatImm"
    THEN FloatImm(x.dtype, IF y.fval < x.fval THEN y.fval ELSE x.fval)
  ELSE Undefined

\* TryConstFold<tir::Max>
TryConstFoldMax(x, y) ==
  IF x.node = "IntImm" /\ y.node = "IntImm"
    THEN IntImm(x.dtype, IF WordLess(x.ival, y.ival) THEN y.ival ELSE x.ival)
  ELSE IF x.node = "FloatImm" /\ y.node = "FloatImm"
    THEN FloatImm(x.dtype, IF x.fval < y.fval THEN y.fval ELSE x.fval)
  ELSE Undefined

\* if (ret.defined()) return ret; return the generic node
FoldedOr(ret, node) == IF ret # Undefined THEN Ok(ret) ELSE Ok(node)

\* min after BinaryOpMatchTypes: fold or build tir::Min
MinOfMatched(m) ==
  IF m.fatal THEN Fatal
  ELSE FoldedOr(TryConstFoldMin(m.lhs, m.rhs), tir_Min(m.lhs, m.rhs))

\* max after BinaryOpMatchTypes: fold or build tir::Max
MaxOfMatched(m) ==
  IF m.fatal THEN Fatal
  ELSE FoldedOr(TryConstFoldMax(m.lhs, m.rhs), tir_Max(m.lhs, m.rhs))

\* min that promotes and folds before it looks for the sentinels
MinOfMatched_SentinelsLate(m) ==
  IF m.fatal THEN Fatal
  ELSE IF is_pos_inf(m.lhs) THEN Ok(m.rhs)
  ELSE IF is_neg_inf(m.lhs) THEN Ok(m.lhs)
  ELSE IF is_pos_inf(m.rhs) THEN Ok(m.lhs)
  ELSE IF is_neg_inf(m.rhs) THEN Ok(m.rhs)
  ELSE FoldedOr(TryConstFoldMin(m.lhs, m.rhs), tir_Min(m.lhs, m.rhs))

min_PromoteFirst(x, y) == MinOfMatched_SentinelsLate(BinaryOpMatchTypes(x, y))

min(x, y) ==
  IF is_pos_inf(x) THEN Ok(y)
  ELSE IF is_neg_inf(x) THEN Ok(x)
  ELSE IF is_pos_inf(y) THEN Ok(x)
  ELSE IF is_neg_inf(y) THEN Ok(y)
  ELSE MinOfMatched(BinaryOpMatchTypes(x, y))

max(x, y) ==
  IF is_pos_inf(x) THEN Ok(x)
  ELSE IF is_neg_inf(x) THEN Ok(y)
  ELSE IF is_pos_inf(y) THEN Ok(y)
  ELSE IF is_neg_inf(y) THEN Ok(x)
  ELSE MaxOfMatched(BinaryOpMatchTypes(x, y))

-----------------------------------------------------------------------------
(* Shifts *)

ShiftOk(e, ovf) == [fatal |-> FALSE, expr |-> e, ovf |-> ovf]
ShiftFatal == [fatal |-> TRUE, expr |-> Undefined, ovf |-> FALSE]

\* ICHECK(pb->value >= 0 && pb->value < rtype.bits())
ShiftAmountInRange(pb, rtype) ==
  SignBit \notin pb /\ WordLess(pb, FromInt(rtype.bits))

\* the body of operator>> after BinaryOpMatchTypes (lines 490-502), run with
\* pa, pb the IntImm payloads of the matched operands
ShiftRightOfMatched(m) ==
  IF m.fatal THEN ShiftFatal
  ELSE IF m.rhs.node = "IntImm" /\ ~ShiftAmountInRange(m.rhs.ival, m.lhs.dtype)
    THEN ShiftFatal
  ELSE IF m.lhs.node = "IntImm" /\ m.rhs.node = "IntImm"
    THEN ShiftOk(IntImm(m.lhs.dtype, WordSar(m.lhs.ival, ToInt(m.rhs.ival))), FALSE)
  ELSE IF m.rhs.node = "IntImm" /\ m.rhs.ival = {} THEN ShiftOk(m.lhs, FALSE)
  ELSE ShiftOk(tir_Call(m.lhs.dtype, "tir.shift_right", <<m.lhs, m.rhs>>), FALSE)

\* operator>>
shift_right(x, y) ==
  IF ~(is_int(x.dtype) \/ is_uint(x.dtype)) THEN ShiftFatal
  ELSE IF ~(is_int(y.dtype) \/ is_uint(y.dtype)) THEN ShiftFatal
  ELSE ShiftRightOfMatched(BinaryOpMatchTypes(x, y))

\* the body of operator<< after BinaryOpMatchTypes (lines 510-521)
ShiftLeftOfMatched(m) ==
  IF m.fatal THEN ShiftFatal
  ELSE IF m.rhs.node = "IntImm" /\ ~ShiftAmountInRange(m.rhs.ival, m.lhs.dtype)
    THEN ShiftFatal
  ELSE IF m.lhs.node = "IntImm" /\ m.rhs.node = "IntImm"
    THEN ShiftOk(IntImm(m.lhs.dtype, WordShl(m.lhs.ival, ToInt(m.rhs.ival))),
                 ShlOverflows(m.lhs.ival, ToInt(m.rhs.ival)))
  ELSE IF m.rhs.node = "IntImm" /\ m.rhs.ival = {} THEN ShiftOk(m.lhs, FALSE)
  ELSE ShiftOk(tir_Call(m.lhs.dtype, "tir.shift_left", <<m.lhs, m.rhs>>), FALSE)

\* the body of operator<< without the zero-shift fold
ShiftLeftOfMatched_NoZeroFold(m) ==
  IF m.fatal THEN ShiftFatal
  ELSE IF m.rhs.node = "IntImm" /\ ~ShiftAmountInRange(m.rhs.ival, m.lhs.dtype)
    THEN ShiftFatal
  ELSE IF m.lhs.node = "IntImm" /\ m.rhs.node = "IntImm"
    THEN ShiftOk(IntImm(m.lhs.dtype, WordShl(m.lhs.ival, ToInt(m.rhs.ival))),
                 ShlOverflows(m.lhs.ival, ToInt(m.rhs.ival)))
  ELSE ShiftOk(tir_Call(m.lhs.dtype, "tir.shift_left", <<m.lhs, m.rhs>>), FALSE)

\* operator<< without the zero-shift fold
shift_left_NoZeroFold(x, y) ==
  IF ~(is_int(x.dtype) \/ is_uint(x.dtype)) THEN ShiftFatal
  ELSE IF ~(is_int(y.dtype) \/ is_uint(y.dtype)) THEN ShiftFatal
  ELSE ShiftLeftOfMatched_NoZeroFold(BinaryOpMatchTypes(x, y))

\* operator<<
shift_left(x, y) ==
  IF ~(is_int(x.dtype) \/ is_uint(x.dtype)) THEN ShiftFatal
  ELSE IF ~(is_int(y.dtype) \/ is_uint(y.dtype)) THEN ShiftFatal
  ELSE ShiftLeftOfMatched(BinaryOpMatchTypes(x, y))

-----------------------------------------------------------------------------
(* Arithmetic, comparison, division and bitwise operators, pow and fmod *)

Abs(n) == IF n < 0 THEN -n ELSE n

\* C++ integer division: the quotient rounds toward zero
TruncDivInt(a, b) ==
  IF (a < 0) = (b < 0) THEN Abs(a) \div Abs(b) ELSE -(Abs(a) \div Abs(b))
TruncModInt(a, b) == a - b * TruncDivInt(a, b)
\* floor division: the quotient rounds toward negative infinity
FloorDivInt(a, b) ==
  IF (a < 0) = (b < 0) THEN Abs(a) \div Abs(b)
  ELSE -((Abs(a) + Abs(b) - 1) \div Abs(b))
FloorModInt(a, b) == a - b * FloorDivInt(a, b)

WordAnd(x, y) == x \cap y
WordOr(x, y) == x \cup y
WordXor(x, y) == (x \ y) \cup (y \ x)

\* the generic binary node tir::Add, tir::Div, ...; its type is the type of
\* its (matched) operands, a comparison node is boolean
tir_BinaryOp(op, x, y) == Expr(op, x.dtype, "", {}, 0, <<x, y>>)
tir_Compare(op, x, y) == Expr(op, DataTypeBool(x.dtype.lanes), "", {}, 0, <<x, y>>)

\* the literal an integer fold computes over two int64 payloads
IntFold(op, a, b) ==
  CASE op = "Add" -> a + b
    [] op = "Sub" -> a - b
    [] op = "Mul" -> a * b
    [] op = "Div" -> TruncDivInt(a, b)
    [] op = "Mod" -> TruncModInt(a, b)
    [] op = "FloorDiv" -> FloorDivInt(a, b)
    [] op = "FloorMod" -> FloorModInt(a, b)

\* the literal a float fold computes over two double payloads (in halves; a
\* quotient is rounded onto the grid of halves)
FloatFold(op, a, b) ==
  CASE op = "Add" -> a + b
    [] op = "Sub" -> a - b
    [] op = "Mul" -> TruncDivInt(a * b, 2)
    [] op = "Div" -> TruncDivInt(2 * a, b)
    [] op = "Mod" -> TruncModInt(a, b)
    [] op = "FloorDiv" -> 2 * FloorDivInt(a, b)
    [] op = "FloorMod" -> FloorModInt(a, b)

Divides(op) == op \in {"Div", "Mod", "FloorDiv", "FloorMod"}

\* TryConstFold<Op> of the arithmetic nodes: two literals of the matched type
\* fold to a literal of that type; a division or modulo by a literal zero has
\* no value and is not folded
TryConstFoldArith(op, x, y) ==
  IF x.node = "IntImm" /\ y.node = "IntImm"
    THEN IF Divides(op) /\ y.ival = {} THEN Undefined
         ELSE IntImm(x.dtype, FromInt(IntFold(op, ToInt(x.ival), ToInt(y.ival))))
  ELSE IF x.node = "FloatImm" /\ y.node = "FloatImm"
    THEN IF Divides(op) /\ y.fval = 0 THEN Undefined
         ELSE FloatImm(x.dtype, FloatFold(op, x.fval, y.fval))
  ELSE Undefined

\* TryConstFold<tir::LT>: two literals fold to a boolean literal
TryConstFoldLT(x, y) ==
  IF x.node = "IntImm" /\ y.node = "IntImm"
    THEN IntImm(DataTypeBool(1), IF WordLess(x.ival, y.ival) THEN {0} ELSE {})
  ELSE IF x.node = "FloatImm" /\ y.node = "FloatImm"
    THEN IntImm(DataTypeBool(1), IF x.fval < y.fval THEN {0} ELSE {})
  ELSE Undefined

\* the operator body after BinaryOpMatchTypes: fold, or build the node
ArithOfMatched(op, m) ==
  IF m.fatal THEN Fatal
  ELSE FoldedOr(TryConstFoldArith(op, m.lhs, m.rhs), tir_BinaryOp(op, m.lhs, m.rhs))

\* operator+
add(a, b) == ArithOfMatched("Add", BinaryOpMatchTypes(a, b))
\* operator-(a, b)
sub(a, b) == ArithOfMatched("Sub", BinaryOpMatchTypes(a, b))
\* operator*
mul(a, b) == ArithOfMatched("Mul", BinaryOpMatchTypes(a, b))
\* div, operator/
div(a, b) == ArithOfMatched("Div", BinaryOpMatchTypes(a, b))

LessOfMatched(m) ==
  IF m.fatal THEN Fatal
  ELSE FoldedOr(TryConstFoldLT(m.lhs, m.rhs), tir_Compare("LT", m.lhs, m.rhs))

\* operator<
less_than(a, b) == LessOfMatched(BinaryOpMatchTypes(a, b))

\* truncdiv: both kind checks, then div
truncdiv(a, b) ==
  IF ~(is_int(a.dtype) \/ is_uint(a.dtype)) THEN Fatal
  ELSE IF ~(is_int(b.dtype) \/ is_uint(b.dtype)) THEN Fatal
  ELSE div(a, b)

\* truncmod, operator%: no kind check
truncmod(a, b) == ArithOfMatched("Mod", BinaryOpMatchTypes(a, b))

\* floordiv without its two kind checks
floordiv_NoKindCheck(a, b) == ArithOfMatched("FloorDiv", BinaryOpMatchTypes(a, b))

\* floordiv
floordiv(a, b) ==
  IF ~(is_int(a.dtype) \/ is_uint(a.dtype)) THEN Fatal
  ELSE IF ~(is_int(b.dtype) \/ is_uint(b.dtype)) THEN Fatal
  ELSE ArithOfMatched("FloorDiv", BinaryOpMatchTypes(a, b))

\* floormod
floormod(a, b) ==
  IF ~(is_int(a.dtype) \/ is_uint(a.dtype)) THEN Fatal
  ELSE IF ~(is_int(b.dtype) \/ is_uint(b.dtype)) THEN Fatal
  ELSE ArithOfMatched("FloorMod", BinaryOpMatchTypes(a, b))

BitFold(name, x, y) ==
  CASE name = "tir.bitwise_and" -> WordAnd(x, y)
    [] name = "tir.bitwise_or" -> WordOr(x, y)
    [] name = "tir.bitwise_xor" -> WordXor(x, y)

\* the body of operator&, | and ^ after BinaryOpMatchTypes: two literals
\* fold, anything else becomes the builtin call
BitwiseOfMatched(name, m) ==
  IF m.fatal THEN Fatal
  ELSE IF m.lhs.node = "IntImm" /\ m.rhs.node = "IntImm"
    THEN Ok(IntImm(m.lhs.dtype, BitFold(name, m.lhs.ival, m.rhs.ival)))
  ELSE Ok(tir_Call(m.lhs.dtype, name, <<m.lhs, m.rhs>>))

\* operator&
bitwise_and(a, b) ==
  IF ~(is_int(a.dtype) \/ is_uint(a.dtype)) THEN Fatal
  ELSE IF ~(is_int(b.dtype) \/ is_uint(b.dtype)) THEN Fatal
  ELSE BitwiseOfMatched("tir.bitwise_and", BinaryOpMatchTypes(a, b))

\* operator|
bitwise_or(a, b) ==
  IF ~(is_int(a.dtype) \/ is_uint(a.dtype)) THEN Fatal
  ELSE IF ~(is_int(b.dtype) \/ is_uint(b.dtype)) THEN Fatal
  ELSE BitwiseOfMatched("tir.bitwise_or", BinaryOpMatchTypes(a, b))

\* operator^
bitwise_xor(a, b) ==
  IF ~(is_int(a.dtype) \/ is_uint(a.dtype)) THEN Fatal
  ELSE IF ~(is_int(b.dtype) \/ is_uint(b.dtype)) THEN Fatal
  ELSE BitwiseOfMatched("tir.bitwise_xor", BinaryOpMatchTypes(a, b))

\* the float check of pow and fmod, made on the operands as matched
FloatCallOfMatched(name, m) ==
  IF m.fatal THEN Fatal
  ELSE IF ~is_float(m.lhs.dtype) THEN Fatal
  ELSE Ok(tir_Call(m.lhs.dtype, name, <<m.lhs, m.rhs>>))

\* pow that checks the kinds of its arguments as passed, before matching
pow_CheckBeforeMatch(x, y) ==
  IF ~is_float(x.dtype) \/ ~is_float(y.dtype) THEN Fatal
  ELSE FloatCallOfMatched("tir.pow", BinaryOpMatchTypes(x, y))

\* pow
pow(x, y) == FloatCallOfMatched("tir.pow", BinaryOpMatchTypes(x, y))

\* fmod
fmod(x, y) == FloatCallOfMatched("tir.fmod", BinaryOpMatchTypes(x, y))

-----------------------------------------------------------------------------
(* Reduction builders *)

CommReducer(x, y, result, identity_element) == <<x, y, result, identity_element>>

\* tir::Reduce(combiner, {source}, rdom, true, 0, init)
tir_Reduce(combiner, source) ==
  Expr("Reduce", source.dtype, "", {}, 0,
       combiner \o <<source, IntImm(DataTypeBool(1), {0})>>)

identity_of(reduce) == reduce.args[4]

\* the reduction over source with the given combine expression and identity
ReduceWith(source, result, identity_element) ==
  IF identity_element.fatal THEN LimitFatal
  ELSE LimitOk(tir_Reduce(CommReducer(Var("x", source.dtype), Var("y", source.dtype),
                                      result, identity_element.expr),
                          source),
               identity_element.ovf)

\* max(source, rdom, init)
max_reduce(source) ==
  ReduceWith(source,
             tir_Max(Var("x", source.dtype), Var("y", source.dtype)),
             min_value(source.dtype))

\* min reduction taking the minimum as its identity
min_reduce_MinIdentity(source) ==
  ReduceWith(source,
             tir_Min(Var("x", source.dtype), Var("y", source.dtype)),
             min_value(source.dtype))

\* min(source, rdom, init)
min_reduce(source) ==
  ReduceWith(source,
             tir_Min(Var("x", source.dtype), Var("y", source.dtype)),
             max_value(source.dtype))

-----------------------------------------------------------------------------
(* Arguments the calls are made with *)

Lanes == 1 .. MaxLanes

ScalarTypes ==
  {DataTypeInt(n, 1) : n \in {8, 32, 64}}
    \cup {DataTypeUInt(n, 1) : n \in {8, 32, 64}}
    \cup {DataTypeFloat(n, 1) : n \in {32, 64}}
    \cup {DataTypeBool(1), DataTypeHandle}
    \cup {DataTypeCustom(c, 16, 1) : c \in CustomCodes}

VectorTypes ==
  {with_lanes(e, n) : e \in {DataTypeInt(32, 1), DataTypeUInt(32, 1), DataTypeFloat(32, 1)},
                      n \in Lanes \ {1}}

VarTypes == ScalarTypes \cup VectorTypes

IntLiterals ==
  {IntImm(e, FromInt(v)) :
     e \in {DataTypeInt(32, 1), DataTypeInt(64, 1), DataTypeUInt(32, 1), DataTypeUInt(8, 1)},
     v \in {0, 1, 40}}
    \cup {IntImm(DataTypeInt(32, 1), FromInt(-1)), IntImm(DataTypeBool(1), FromInt(1))}

\* 0.0, 1.5 and 2.5; the payloads are non-negative because converting a
\* negative double to uint64_t (a float literal cast to an unsigned type) is
\* undefined in C++
FloatLiterals == {FloatImm(DataTypeFloat(32, 1), f) : f \in {0, 3, 5}}

InputExprs ==
  {Var("v", e) : e \in VarTypes} \cup IntLiterals \cup FloatLiterals \cup {pos_inf, neg_inf}

\* operands of the arithmetic, division, bitwise and float-only operators:
\* variables and literals of the integer, unsigned and float types, the float
\* literals being 0.0 and 2.0
OperandExprs ==
  {Var("v", e) : e \in {DataTypeInt(32, 1), DataTypeUInt(32, 1), DataTypeFloat(32, 1),
                        DataTypeFloat(64, 1), DataTypeInt(32, 2)}}
    \cup {IntImm(DataTypeInt(32, 1), FromInt(v)) : v \in {0, 1, 40, -1}}
    \cup {IntImm(DataTypeInt(64, 1), FromInt(40)), IntImm(DataTypeUInt(32, 1), FromInt(1))}
    \cup {FloatImm(DataTypeFloat(32, 1), f) : f \in {0, 4}}

\* data types handed to the limit functions
LimitTypes ==
  {DataType(k, 0, n, l) : k \in {"int", "uint", "float"}, n \in 1 .. MaxBits, l \in Lanes}
    \cup {DataTypeBool(l) : l \in Lanes}
    \cup {DataTypeHandle}
    \cup {DataTypeCustom(c, n, l) : c \in CustomCodes, n \in {8, 16}, l \in Lanes}

-----------------------------------------------------------------------------
(* Concurrent builder calls: what a thread calls and what it gets back *)

Threads == 1 .. NumThreads

BuilderCall(op, a, b, t) == [op |-> op, a |-> a, b |-> b, t |-> t]
NoCall == BuilderCall("none", Undefined, Undefined, DataTypeVoid)

\* what a call hands back to its thread: a fatal failure, or the expressions
Outcome(f, exprs) == [failed |-> f, exprs |-> exprs]
NoOutcome == Outcome(FALSE, <<>>)
ExprOutcome(r) == Outcome(r.fatal, <<r.expr>>)
MatchOutcome(m) == Outcome(m.fatal, <<m.lhs, m.rhs>>)

ThreadIdle == [pc |-> "idle", call |-> NoCall, result |-> NoOutcome]

\* the builder function a call names, run on the call's arguments
RunBuilder(c) ==
  CASE c.op = "match_types" -> MatchOutcome(BinaryOpMatchTypes(c.a, c.b))
    [] c.op = "cast" -> ExprOutcome(cast(c.t, c.a))
    [] c.op = "min_value" -> ExprOutcome(min_value(c.t))
    [] c.op = "add" -> ExprOutcome(add(c.a, c.b))
    [] c.op = "min_reduce" -> ExprOutcome(min_reduce(c.a))
    [] c.op = "max_reduce" -> ExprOutcome(max_reduce(c.a))

\* the calls the threads make; those on a custom type look the registry up
ThreadCalls ==
  {BuilderCall("match_types", Var("v", DataTypeCustom(1, 16, 1)),
               Var("v", DataTypeInt(32, 1)), DataTypeVoid),
   BuilderCall("cast", Var("v", DataTypeInt(32, 1)), Undefined, DataTypeFloat(32, 2)),
   BuilderCall("min_value", Undefined, Undefined, DataTypeCustom(1, 16, 1)),
   BuilderCall("add", IntImm(DataTypeInt(32, 1), FromInt(1)),
               FloatImm(DataTypeFloat(32, 1), 4), DataTypeVoid),
   BuilderCall("min_reduce", Var("v", DataTypeInt(32, 1)), Undefined, DataTypeVoid),
   BuilderCall("max_reduce", Var("v", DataTypeCustom(1, 16, 1)), Undefined, DataTypeVoid)}

\* the contents extensions can leave in the registry: a minimum callback
\* belongs to a registered code
RegistryContents ==
  {r \in [CustomCodes -> [registered : BOOLEAN, minf : BOOLEAN]] :
     \A c \in CustomCodes : r[c].minf => r[c].registered}

-----------------------------------------------------------------------------
(* State machine *)

Init ==
  /\ registry = [c \in CustomCodes |-> [registered |-> FALSE, minf |-> FALSE]]
  /\ call = "idle"
  /\ arg_a = Undefined
  /\ arg_b = Undefined
  /\ arg_t = DataTypeVoid
  /\ failed = FALSE
  /\ out = Undefined
  /\ out_a = Undefined
  /\ out_b = Undefined
  /\ overflow = FALSE
  /\ threads = [t \in Threads |-> ThreadIdle]

\* the record a finished call leaves in the state; calls start from idle
Returns(name, x, y, t, f, e, xa, xb, ovf) ==
  /\ call = "idle"
  /\ call' = name
  /\ arg_a' = x
  /\ arg_b' = y
  /\ arg_t' = t
  /\ failed' = f
  /\ out' = e
  /\ out_a' = xa
  /\ out_b' = xb
  /\ overflow' = ovf
  /\ UNCHANGED <<registry, threads>>

\* a call that returns an expression (r.expr) or fails (r.fatal)
ReturnsExpr(name, x, y, t, r) ==
  Returns(name, x, y, t, r.fatal, r.expr, Undefined, Undefined, FALSE)

\* a call that also reports signed overflow of an intermediate (r.ovf)
ReturnsChecked(name, x, y, t, r) ==
  Returns(name, x, y, t, r.fatal, r.expr, Undefined, Undefined, r.ovf)

\* BinaryOpMatchTypes rewrites its two operands in place
ReturnsMatched(x, y, m) ==
  Returns("match_types", x, y, DataTypeVoid, m.fatal, Undefined, m.lhs, m.rhs, FALSE)

\* an extension registers a custom type code
RegisterType ==
  \E c \in CustomCodes :
    /\ ~registry[c].registered
    /\ registry' = [registry EXCEPT ![c].registered = TRUE]
    /\ call = "idle"
    /\ UNCHANGED <<call, arg_a, arg_b, arg_t, failed, out, out_a, out_b, overflow, threads>>

\* an extension registers the minimum callback of a registered code
RegisterMinFunc ==
  \E c \in CustomCodes :
    /\ registry[c].registered
    /\ ~registry[c].minf
    /\ registry' = [registry EXCEPT ![c].minf = TRUE]
    /\ call = "idle"
    /\ UNCHANGED <<call, arg_a, arg_b, arg_t, failed, out, out_a, out_b, overflow, threads>>

CallMatchTypes ==
  /\ call = "idle"
  /\ \E x \in InputExprs, y \in InputExprs :
       ReturnsMatched(x, y, BinaryOpMatchTypes(x, y))

CallCast ==
  /\ call = "idle"
  /\ \E t \in VarTypes, x \in InputExprs :
       ReturnsExpr("cast", x, Undefined, t, cast(t, x))

CallMaxValue ==
  /\ call = "idle"
  /\ \E t \in LimitTypes :
       ReturnsChecked("max_value", Undefined, Undefined, t, max_value(t))

CallMinValue ==
  /\ call = "idle"
  /\ \E t \in LimitTypes :
       ReturnsChecked("min_value", Undefined, Undefined, t, min_value(t))

CallInfinity ==
  /\ call = "idle"
  /\ \E t \in LimitTypes :
       ReturnsChecked("infinity", Undefined, Undefined, t, infinity(t))

CallMin ==
  /\ call = "idle"
  /\ \E x \in InputExprs, y \in InputExprs :
       ReturnsExpr("min", x, y, DataTypeVoid, min(x, y))

CallMax ==
  /\ call = "idle"
  /\ \E x \in InputExprs, y \in InputExprs :
       ReturnsExpr("max", x, y, DataTypeVoid, max(x, y))

CallShiftRight ==
  /\ call = "idle"
  /\ \E x \in InputExprs, y \in InputExprs :
       ReturnsChecked("shift_right", x, y, DataTypeVoid, shift_right(x, y))

CallShiftLeft ==
  /\ call = "idle"
  /\ \E x \in InputExprs, y \in InputExprs :
       ReturnsChecked("shift_left", x, y, DataTypeVoid, shift_left(x, y))

CallMaxReduce ==
  /\ call = "idle"
  /\ \E x \in InputExprs :
       ReturnsChecked("max_reduce", x, Undefined, DataTypeVoid, max_reduce(x))

CallMinReduce ==
  /\ call = "idle"
  /\ \E x \in InputExprs :
       ReturnsChecked("min_reduce", x, Undefined, DataTypeVoid, min_reduce(x))

CallAdd ==
  /\ call = "idle"
  /\ \E x \in OperandExprs, y \in OperandExprs :
       ReturnsExpr("add", x, y, DataTypeVoid, add(x, y))

CallSub ==
  /\ call = "idle"
  /\ \E x \in OperandExprs, y \in OperandExprs :
       ReturnsExpr("sub", x, y, DataTypeVoid, sub(x, y))

CallMul ==
  /\ call = "idle"
  /\ \E x \in OperandExprs, y \in OperandExprs :
       ReturnsExpr("mul", x, y, DataTypeVoid, mul(x, y))

CallDiv ==
  /\ call = "idle"
  /\ \E x \in OperandExprs, y \in OperandExprs :
       ReturnsExpr("div", x, y, DataTypeVoid, div(x, y))

CallLessThan ==
  /\ call = "idle"
  /\ \E x \in OperandExprs, y \in OperandExprs :
       ReturnsExpr("less_than", x, y, DataTypeVoid, less_than(x, y))

CallTruncDiv ==
  /\ call = "idle"
  /\ \E x \in OperandExprs, y \in OperandExprs :
       ReturnsExpr("truncdiv", x, y, DataTypeVoid, truncdiv(x, y))

CallTruncMod ==
  /\ call = "idle"
  /\ \E x \in OperandExprs, y \in OperandExprs :
       ReturnsExpr("truncmod", x, y, DataTypeVoid, truncmod(x, y))

CallFloorDiv ==
  /\ call = "idle"
  /\ \E x \in OperandExprs, y \in OperandExprs :
       ReturnsExpr("floordiv", x, y, DataTypeVoid, floordiv(x, y))

CallFloorMod ==
  /\ call = "idle"
  /\ \E x \in OperandExprs, y \in OperandExprs :
       ReturnsExpr("floormod", x, y, DataTypeVoid, floormod(x, y))

CallBitwiseAnd ==
  /\ call = "idle"
  /\ \E x \in OperandExprs, y \in OperandExprs :
       ReturnsExpr("bitwise_and", x, y, DataTypeVoid, bitwise_and(x, y))

CallBitwiseOr ==
  /\ call = "idle"
  /\ \E x \in OperandExprs, y \in OperandExprs :
       ReturnsExpr("bitwise_or", x, y, DataTypeVoid, bitwise_or(x, y))

CallBitwiseXor ==
  /\ call = "idle"
  /\ \E x \in OperandExprs, y \in OperandExprs :
       ReturnsExpr("bitwise_xor", x, y, DataTypeVoid, bitwise_xor(x, y))

CallPow ==
  /\ call = "idle"
  /\ \E x \in OperandExprs, y \in OperandExprs :
       ReturnsExpr("pow", x, y, DataTypeVoid, pow(x, y))

CallFMod ==
  /\ call = "idle"
  /\ \E x \in OperandExprs, y \in OperandExprs :
       ReturnsExpr("fmod", x, y, DataTypeVoid, fmod(x, y))

\* the caller has taken the outcome of the call; the builder is idle again
Done ==
  /\ call # "idle"
  /\ call' = "idle"
  /\ arg_a' = Undefined
  /\ arg_b' = Undefined
  /\ arg_t' = DataTypeVoid
  /\ failed' = FALSE
  /\ out' = Undefined
  /\ out_a' = Undefined
  /\ out_b' = Undefined
  /\ overflow' = FALSE
  /\ UNCHANGED <<registry, threads>>

Next ==
  \/ Done
  \/ RegisterType
  \/ RegisterMinFunc
  \/ CallMatchTypes
  \/ CallCast
  \/ CallMaxValue
  \/ CallMinValue
  \/ CallInfinity
  \/ CallMin
  \/ CallMax
  \/ CallShiftRight
  \/ CallShiftLeft
  \/ CallMaxReduce
  \/ CallMinReduce
  \/ CallAdd
  \/ CallSub
  \/ CallMul
  \/ CallDiv
  \/ CallLessThan
  \/ CallTruncDiv
  \/ CallTruncMod
  \/ CallFloorDiv
  \/ CallFloorMod
  \/ CallBitwiseAnd
  \/ CallBitwiseOr
  \/ CallBitwiseXor
  \/ CallPow
  \/ CallFMod

Spec == Init /\ [][Next]_vars

-----------------------------------------------------------------------------
(* Several threads building expressions while the registry is left alone *)

builder_vars == <<call, arg_a, arg_b, arg_t, failed, out, out_a, out_b, overflow>>

\* registration is over: the registry holds any content extensions can leave
InitThreads ==
  /\ registry \in RegistryContents
  /\ call = "idle"
  /\ arg_a = Undefined
  /\ arg_b = Undefined
  /\ arg_t = DataTypeVoid
  /\ failed = FALSE
  /\ out = Undefined
  /\ out_a = Undefined
  /\ out_b = Undefined
  /\ overflow = FALSE
  /\ threads = [t \in Threads |-> ThreadIdle]

\* thread t enters a builder function with its arguments
ThreadBegin(t) ==
  \E c \in ThreadCalls :
    /\ threads[t].pc = "idle"
    /\ threads' = [threads EXCEPT ![t] = [pc |-> "running", call |-> c, result |-> NoOutcome]]
    /\ UNCHANGED <<registry, builder_vars>>

\* a builder function that registers the custom code it was asked about
ThreadReturn_RegistersType(t) ==
  /\ threads[t].pc = "running"
  /\ threads' = [threads EXCEPT ![t].pc = "returned",
                                ![t].result = RunBuilder(threads[t].call)]
  /\ registry' = IF threads[t].call.op = "match_types"
                   THEN [registry EXCEPT ![1].registered = TRUE]
                   ELSE registry
  /\ UNCHANGED builder_vars

\* the function runs, looking the registry up as it goes, and returns to
\* thread t; it writes nothing but its own result
ThreadReturn(t) ==
  /\ threads[t].pc = "running"
  /\ threads' = [threads EXCEPT ![t].pc = "returned",
                                ![t].result = RunBuilder(threads[t].call)]
  /\ UNCHANGED <<registry, builder_vars>>

\* thread t has taken the result
ThreadDone(t) ==
  /\ threads[t].pc = "returned"
  /\ threads' = [threads EXCEPT ![t] = ThreadIdle]
  /\ UNCHANGED <<registry, builder_vars>>

NextThreads ==
  \E t \in Threads :
    \/ ThreadBegin(t)
    \/ ThreadReturn(t)
    \/ ThreadDone(t)

SpecThreads == InitThreads /\ [][NextThreads]_vars

-----------------------------------------------------------------------------
(* Properties *)

IntOrUInt(t) == is_int(t) \/ is_uint(t)
WiderBits(ta, tb) == IF ta.bits >= tb.bits THEN ta.bits ELSE tb.bits

\* C1: whenever BinaryOpMatchTypes returns without a fatal failure, the two
\* rewritten operands have the same dtype (kind, bit width and lane count).
MatchedOperandsHaveSameType ==
  (call = "match_types" /\ ~failed) => out_a.dtype = out_b.dtype

\* C1 witness: operands of different kinds and lane counts were reconciled
MatchedOperandsHaveSameTypeWitness ==
  /\ call = "match_types"
  /\ ~failed
  /\ arg_a.dtype.kind # arg_b.dtype.kind
  /\ arg_a.dtype.lanes # arg_b.dtype.lanes
  /\ out_a # arg_a
  /\ out_a.dtype = out_b.dtype

\* C2: a signed and an unsigned integer operand with equal lane counts, in
\* either order, both end up typed as the signed integer of the larger width.
MixedSignednessResolvesToSigned ==
  (/\ call = "match_types"
   /\ arg_a.dtype.lanes = arg_b.dtype.lanes
   /\ \/ is_int(arg_a.dtype) /\ is_uint(arg_b.dtype)
      \/ is_uint(arg_a.dtype) /\ is_int(arg_b.dtype))
  => /\ ~failed
     /\ out_a.dtype = DataTypeInt(WiderBits(arg_a.dtype, arg_b.dtype), arg_a.dtype.lanes)
     /\ out_b.dtype = out_a.dtype

\* C2 witness: match_types(uint32, int32) gave two int32 operands
MixedSignednessResolvesToSignedWitness ==
  /\ call = "match_types"
  /\ ~failed
  /\ arg_a.dtype = DataTypeUInt(32, 1)
  /\ arg_b.dtype = DataTypeInt(32, 1)
  /\ out_a.dtype = DataTypeInt(32, 1)
  /\ out_b.dtype = DataTypeInt(32, 1)

\* the kind pairs the promotion rule is documented to reconcile
NumericFamily(t) == is_int(t) \/ is_uint(t) \/ GetTypeRegistered(t.code)
FloatFamily(t) == is_float(t) \/ GetTypeRegistered(t.code)
PromotablePair(ta, tb) ==
  \/ NumericFamily(ta) /\ FloatFamily(tb)
  \/ FloatFamily(ta) /\ NumericFamily(tb)
  \/ is_int(ta) /\ is_int(tb)
  \/ is_uint(ta) /\ is_uint(tb)
  \/ is_int(ta) /\ is_uint(tb)
  \/ is_uint(ta) /\ is_int(tb)

\* C3: BinaryOpMatchTypes fails fatally for every pair of operands whose
\* element types differ and are not int/uint/custom-registered versus float,
\* int versus int, uint versus uint or int versus uint; a boolean mixed with a
\* numeric operand and a handle mixed with any other type fail fatally.
UnpromotablePairFails ==
  (/\ call = "match_types"
   /\ element_of(arg_a.dtype) # element_of(arg_b.dtype)
   /\ ~PromotablePair(arg_a.dtype, arg_b.dtype))
  => failed

\* C4: binary min and max apply the infinity sentinel rule before promotion
\* and folding, and return the chosen original argument unchanged.
InfinityShortCircuit ==
  /\ call = "min" =>
       /\ is_pos_inf(arg_a) => (~failed /\ out = arg_b)
       /\ is_neg_inf(arg_a) => (~failed /\ out = arg_a)
       /\ is_pos_inf(arg_b) => (~failed /\ out = arg_a)
       /\ is_neg_inf(arg_b) => (~failed /\ out = arg_b)
  /\ call = "max" =>
       /\ is_pos_inf(arg_a) => (~failed /\ out = arg_a)
       /\ is_neg_inf(arg_a) => (~failed /\ out = arg_b)
       /\ is_pos_inf(arg_b) => (~failed /\ out = arg_b)
       /\ is_neg_inf(arg_b) => (~failed /\ out = arg_a)

\* C4 witness: min(+inf, int literal) returned the int literal with its int type
InfinityShortCircuitWitness ==
  /\ call = "min"
  /\ is_pos_inf(arg_a)
  /\ arg_b = IntImm(DataTypeInt(32, 1), FromInt(40))
  /\ ~failed
  /\ out = arg_b
  /\ out.dtype = DataTypeInt(32, 1)

\* a shift of a symbolic integer operand by a literal zero
ShiftOfVarByZero ==
  /\ call \in {"shift_left", "shift_right"}
  /\ arg_a.node = "Var"
  /\ IntOrUInt(arg_a.dtype)
  /\ arg_b.node = "IntImm"
  /\ IntOrUInt(arg_b.dtype)
  /\ arg_b.ival = {}

CastIdempotent ==
  (call = "cast" /\ ~failed)
  => (out.dtype = arg_t /\ cast(arg_t, out) = Ok(out))

\* C6 witness: a scalar literal was converted and broadcast to a vector type
CastIdempotentWitness ==
  /\ call = "cast"
  /\ ~failed
  /\ arg_a.node = "IntImm"
  /\ arg_t.lanes > 1
  /\ arg_a.dtype # element_of(arg_t)
  /\ out.node = "Broadcast"
  /\ cast(arg_t, out) = Ok(out)

\* the unsigned value an unsigned literal stands for, as a 64-bit word
UIntLiteralWord(e) ==
  IF e.node = "IntImm" THEN e.ival
  ELSE e.args[1].ival \cup {i + 32 : i \in e.args[2].ival}

\* C7: for scalar Int(b), 1 <= b <= 64, max_value is 2^(b-1) - 1 and min_value
\* is -2^(b-1); for scalar UInt(b), b <= 64, max_value is 2^b - 1 and min_value
\* is 0; no signed 64-bit intermediate overflows.
LimitBoundaries ==
  (/\ call \in {"max_value", "min_value"}
   /\ arg_t.lanes = 1
   /\ IntOrUInt(arg_t)
   /\ arg_t.bits >= 1
   /\ arg_t.bits <= 64)
  => /\ ~failed
     /\ ~overflow
     /\ out.dtype = arg_t
     /\ (call = "max_value" /\ is_int(arg_t)) =>
          /\ out = IntImm(arg_t, 0 .. (arg_t.bits - 2))
          /\ arg_t.bits <= 31 => ToInt(out.ival) = 2^(arg_t.bits - 1) - 1
          /\ arg_t.bits = 8 => ToInt(out.ival) = 127
     /\ (call = "min_value" /\ is_int(arg_t)) =>
          /\ out = IntImm(arg_t, (arg_t.bits - 1) .. SignBit)
          /\ arg_t.bits <= 31 => ToInt(out.ival) = -(2^(arg_t.bits - 1))
          /\ arg_t.bits = 8 => ToInt(out.ival) = -128
     /\ (call = "max_value" /\ is_uint(arg_t)) =>
          /\ UIntLiteralWord(out) = 0 .. (arg_t.bits - 1)
          /\ arg_t.bits <= 30 => ToInt(out.ival) = 2^(arg_t.bits) - 1
          /\ arg_t.bits = 8 => ToInt(out.ival) = 255
     /\ (call = "min_value" /\ is_uint(arg_t)) =>
          /\ out = IntImm(arg_t, {})
          /\ ToInt(out.ival) = 0

\* C7 witness: max_value(Int8) returned the literal 127
LimitBoundariesWitness ==
  /\ call = "max_value"
  /\ arg_t = DataTypeInt(8, 1)
  /\ ~failed
  /\ out.node = "IntImm"
  /\ ToInt(out.ival) = 127

\* a type outside the precondition of the limit functions
LimitPreconditionViolated(t) ==
  \/ t.lanes # 1
  \/ IntOrUInt(t) /\ t.bits > 64
  \/ is_float(t) /\ t.bits \notin {16, 32, 64}
  \/ is_bool(t)
  \/ is_handle(t)

\* C8: max_value, min_value and infinity each fail fatally whenever the type
\* has lanes # 1, an unsupported bit width, or boolean or handle kind.
LimitPreconditionFails ==
  (/\ call \in {"max_value", "min_value", "infinity"}
   /\ LimitPreconditionViolated(arg_t))
  => failed

\* C9: min_value of a scalar custom-coded type returns the registered minimum
\* callback applied to the bit width, and fails fatally when the code has no
\* callback or is not registered.
CustomMinValue ==
  (call = "min_value" /\ is_custom(arg_t) /\ arg_t.lanes = 1)
  => IF registry[arg_t.code].registered /\ registry[arg_t.code].minf
       THEN ~failed /\ out = MinFuncResult(arg_t.code, arg_t.bits)
       ELSE failed

\* C9 witness: a registered callback supplied the minimum
CustomMinValueWitness ==
  /\ call = "min_value"
  /\ is_custom(arg_t)
  /\ arg_t.lanes = 1
  /\ registry[arg_t.code].minf
  /\ ~failed
  /\ out = MinFuncResult(arg_t.code, arg_t.bits)

\* C10: the min-reduction builder uses max_value(source dtype) as its identity
\* element and the max-reduction builder min_value(source dtype); for an Int32
\* source the min-reduction identity is 2147483647.
ReductionIdentity ==
  /\ call = "min_reduce" =>
       /\ failed = max_value(arg_a.dtype).fatal
       /\ ~failed => identity_of(out) = max_value(arg_a.dtype).expr
       /\ arg_a.dtype = DataTypeInt(32, 1) =>
            (~failed /\ identity_of(out) = IntImm(DataTypeInt(32, 1), 0 .. 30))
  /\ call = "max_reduce" =>
       /\ failed = min_value(arg_a.dtype).fatal
       /\ ~failed => identity_of(out) = min_value(arg_a.dtype).expr
       /\ arg_a.dtype = DataTypeInt(32, 1) =>
            (~failed /\ identity_of(out) = IntImm(DataTypeInt(32, 1), 31 .. SignBit))

\* C10 witness: a min reduction over an Int32 source carries 2^31 - 1
ReductionIdentityWitness ==
  /\ call = "min_reduce"
  /\ arg_a.dtype = DataTypeInt(32, 1)
  /\ ~failed
  /\ identity_of(out).node = "IntImm"
  /\ identity_of(out).ival = 0 .. 30

\* the operators that check the kind of both operands first
KindCheckedOps ==
  {"bitwise_and", "bitwise_or", "bitwise_xor", "shift_left", "shift_right",
   "floordiv", "floormod"}

\* C11: &, |, ^, <<, >>, floordiv and floormod fail fatally whenever either
\* operand as passed is not of integer or unsigned kind; nothing is returned,
\* so a float operand is never promoted or cast into a result.
NonIntegerOperandFails ==
  (call \in KindCheckedOps /\ (~IntOrUInt(arg_a.dtype) \/ ~IntOrUInt(arg_b.dtype)))
    => (failed /\ out = Undefined)

\* C11 witness: floordiv over two float operands has aborted
NonIntegerOperandFailsWitness ==
  /\ call = "floordiv"
  /\ is_float(arg_a.dtype)
  /\ is_float(arg_b.dtype)
  /\ failed

\* C12: truncdiv and truncmod fail fatally when an operand is not of integer
\* or unsigned kind, and never return a division or modulo over floats.
TruncRequiresInteger ==
  (call \in {"truncdiv", "truncmod"}
     /\ (~IntOrUInt(arg_a.dtype) \/ ~IntOrUInt(arg_b.dtype)))
    => (failed /\ out = Undefined)

IsLiteral(e) == e.node \in {"IntImm", "FloatImm"}

\* the type the promotion rule assigns to a pair of numeric scalar types
PromotedType(ta, tb) ==
  IF is_float(ta) THEN ta
  ELSE IF is_float(tb) THEN tb
  ELSE IF ta.kind = tb.kind THEN (IF ta.bits < tb.bits THEN tb ELSE ta)
  ELSE DataTypeInt(WiderBits(ta, tb), 1)

ArithmeticOps ==
  {"add", "sub", "mul", "div", "truncdiv", "truncmod", "floordiv", "floormod"}

\* C13: an arithmetic or comparison operator applied to two literals whose
\* types the promotion rule accepts returns a single literal, never a generic
\* node: a literal of the promoted type for an arithmetic operator, a boolean
\* literal for a comparison.
FoldReturnsPromotedLiteral ==
  (call \in ArithmeticOps \cup {"less_than"}
     /\ IsLiteral(arg_a) /\ IsLiteral(arg_b) /\ ~failed)
    => /\ IsLiteral(out)
       /\ call \in ArithmeticOps => out.dtype = PromotedType(arg_a.dtype, arg_b.dtype)
       /\ call = "less_than" => is_bool(out.dtype)

ShiftLiteralInRange ==
  (call \in {"shift_left", "shift_right"}
     /\ arg_b.node = "IntImm"
     /\ IntOrUInt(arg_a.dtype) /\ IntOrUInt(arg_b.dtype)
     /\ ~failed)
    => (0 <= ToInt(arg_b.ival) /\ ToInt(arg_b.ival) < WiderBits(arg_a.dtype, arg_b.dtype))

\* C16 as stated: pow and fmod fail fatally whenever an argument as passed is
\* not of float kind.
FloatOnlyRejectsNonFloatArgument ==
  (call \in {"pow", "fmod"} /\ (~is_float(arg_a.dtype) \/ ~is_float(arg_b.dtype)))
    => failed

LanesCompatible(ta, tb) == ta.lanes = tb.lanes \/ ta.lanes = 1 \/ tb.lanes = 1

\* C16, amended: pow and fmod test the float kind after the promotion rule.
\* Two non-float arguments fail; an integer or unsigned argument next to a
\* float one is promoted to the float type and the call node is built over
\* the promoted operands; every returned call node is of float type.
FloatOnlyChecksPromotedOperands ==
  call \in {"pow", "fmod"} =>
    /\ (~is_float(arg_a.dtype) /\ ~is_float(arg_b.dtype)) => failed
    /\ (((is_float(arg_a.dtype) /\ IntOrUInt(arg_b.dtype))
           \/ (IntOrUInt(arg_a.dtype) /\ is_float(arg_b.dtype)))
         /\ LanesCompatible(arg_a.dtype, arg_b.dtype)) => ~failed
    /\ ~failed =>
         /\ out.node = "Call"
         /\ is_float(out.dtype)
         /\ out.args[1].dtype = out.dtype
         /\ out.args[2].dtype = out.dtype

\* C16 witness: pow of an integer base and a float exponent built a call
FloatOnlyChecksPromotedOperandsWitness ==
  /\ call = "pow"
  /\ is_int(arg_a.dtype)
  /\ is_float(arg_b.dtype)
  /\ ~failed
  /\ out.node = "Call"
  /\ is_float(out.args[1].dtype)

\* the calls that run the promotion rule on their two operands
MatchingOps ==
  {"match_types", "add", "sub", "mul", "div", "less_than", "truncdiv", "truncmod",
   "floordiv", "floormod", "bitwise_and", "bitwise_or", "bitwise_xor",
   "shift_left", "shift_right", "pow", "fmod"}

IsSentinel(e) == is_pos_inf(e) \/ is_neg_inf(e)

MixedWidthFloats(ta, tb) ==
  is_float(ta) /\ is_float(tb) /\ ta.lanes = tb.lanes /\ ta.bits # tb.bits

\* C17: the promotion rule never widens a float to another float: two float
\* operands of equal lane count and different bit widths make match_types,
\* and every operator built through it, fail fatally.
MixedWidthFloatsFail ==
  (MixedWidthFloats(arg_a.dtype, arg_b.dtype)
     /\ (call \in MatchingOps
           \/ (call \in {"min", "max"} /\ ~IsSentinel(arg_a) /\ ~IsSentinel(arg_b))))
    => (failed /\ out = Undefined /\ out_a = Undefined /\ out_b = Undefined)

\* C17 witness: match_types on a float32 and a float64 operand has aborted
MixedWidthFloatsFailWitness ==
  /\ call = "match_types"
  /\ arg_a.dtype = DataTypeFloat(32, 1)
  /\ arg_b.dtype = DataTypeFloat(64, 1)
  /\ failed

====
